---- MODULE Spec2Model ----
(***************************************************************************)
(* Ship-grounding event extraction: the keyword variant                    *)
(* (Grounding-extraction-spacy+pattern.py, GroundingEventExtractor) and    *)
(* the matcher variant (Grounding-extraction-spacy.py,                     *)
(* SpacyGroundingExtractor), with the interactive read loop of their       *)
(* drivers.                                                                *)
(*                                                                         *)
(* Texts are TLA+ strings.  Two characters stand for code points that the  *)
(* module's character set cannot spell: DotI for U+0130 (capital I with    *)
(* dot above) and CombDot for U+0307 (combining dot above); str.lower()    *)
(* maps the first to "i" followed by the second.                           *)
(***************************************************************************)
EXTENDS Bags, FiniteSets, Integers, Sequences, TLC

VARIABLES
    variant,         \* "keyword": GroundingEventExtractor; "matcher":
                     \* SpacyGroundingExtractor
    nlp,             \* self.nlp is a loaded analyzer (FALSE: self.nlp is None)
    pc,              \* where the caller of the extractor stands
    user_text,       \* the text handed to extract
    doc,             \* the analyzer's document for that text
    result,          \* what extract returned
    parts,           \* the lists each strategy found, per category
    nRead,           \* lines read by input()
    nOther,          \* lines read that are not quit, exit or q in any case
    nText,           \* of these, the non-blank ones read at the text prompt
    nExtract,        \* calls of extract
    nReport,         \* calls of display_results
    nJson,           \* JSON dumps printed
    lastLine         \* the line read last

vars == <<variant, nlp, pc, user_text, doc, result, parts, nRead, nOther,
          nText, nExtract, nReport, nJson, lastLine>>

----------------------------------------------------------------------------
(* Bounds *)

MaxPieces == 2
MaxNames == 2
MaxLines == 2
MaxTriggers == 3

----------------------------------------------------------------------------
(* Characters and strings *)

DotI == "%"
CombDot == "^"

UpperChars == <<"A","B","C","D","E","F","G","H","I","J","K","L","M",
                "N","O","P","Q","R","S","T","U","V","W","X","Y","Z">>
LowerChars == <<"a","b","c","d","e","f","g","h","i","j","k","l","m",
                "n","o","p","q","r","s","t","u","v","w","x","y","z">>
Digits == {"0","1","2","3","4","5","6","7","8","9"}

Range(s) == {s[i] : i \in DOMAIN s}

CharAt(s, i) == SubSeq(s, i, i)

\* str.lower() of one character
LowerChar(c) ==
    IF c = DotI THEN "i" \o CombDot
    ELSE IF \E k \in DOMAIN UpperChars : UpperChars[k] = c
         THEN LowerChars[CHOOSE k \in DOMAIN UpperChars : UpperChars[k] = c]
         ELSE c

RECURSIVE Lower(_)
\* str.lower()
Lower(s) ==
    IF Len(s) = 0 THEN ""
    ELSE IF Len(s) = 1 THEN LowerChar(CharAt(s, 1))
    ELSE LET half == Len(s) \div 2
         IN Lower(SubSeq(s, 1, half)) \o Lower(SubSeq(s, half + 1, Len(s)))

\* \w of the re module on str patterns: alphanumerics and the underscore
IsWordChar(c) ==
    \/ c \in Range(UpperChars)
    \/ c \in Range(LowerChars)
    \/ c \in Digits
    \/ c = "_"
    \/ c = DotI

\* \b at 0-based offset p of s
WordBoundary(s, p) ==
    LET before == p >= 1 /\ IsWordChar(CharAt(s, p))
        after == p < Len(s) /\ IsWordChar(CharAt(s, p + 1))
    IN before # after

\* the literal pattern matches s at 0-based offset p; re.IGNORECASE when ic
LiteralAt(pattern, s, p, ic) ==
    /\ p + Len(pattern) <= Len(s)
    /\ LET sub == SubSeq(s, p + 1, p + Len(pattern))
       IN IF ic THEN Lower(sub) = Lower(pattern) ELSE sub = pattern

\* r'\b' + re.escape(pattern) + r'\b' matches s at 0-based offset p
WholeWordAt(pattern, s, p, ic) ==
    /\ WordBoundary(s, p)
    /\ LiteralAt(pattern, s, p, ic)
    /\ WordBoundary(s, p + Len(pattern))

\* the offsets >= from at which the pattern matches s
MatchOffsets(pattern, s, from, ic) ==
    {p \in from..Len(s) : WholeWordAt(pattern, s, p, ic)}

\* the least element of a non-empty set of numbers
Least(S) == CHOOSE p \in S : \A q \in S : p <= q

\* re.search in place of re.finditer: the leftmost match only
FindFirst(pattern, s, from, ic) ==
    LET hits == MatchOffsets(pattern, s, from, ic)
    IN IF hits = {} THEN <<>>
       ELSE <<<<Least(hits), Least(hits) + Len(pattern)>>>>

RECURSIVE FindIter(_, _, _, _)
\* re.finditer: the matches at offsets >= from, leftmost first, each search
\* resuming at the end of the previous match; a sequence of <<start, end>>
FindIter(pattern, s, from, ic) ==
    LET hits == MatchOffsets(pattern, s, from, ic)
    IN IF hits = {} THEN <<>>
       ELSE LET p == Least(hits)
            IN <<<<p, p + Len(pattern)>>>>
               \o FindIter(pattern, s,
                           IF Len(pattern) = 0 THEN p + 1
                           ELSE p + Len(pattern), ic)

\* needle in haystack
Contains(haystack, needle) ==
    \E p \in 0..(Len(haystack) - Len(needle)) :
        SubSeq(haystack, p + 1, p + Len(needle)) = needle

\* text[start:end] with non-negative offsets
Slice(s, start, end) ==
    LET e == IF end > Len(s) THEN Len(s) ELSE end
    IN IF start >= e THEN "" ELSE SubSeq(s, start + 1, e)

----------------------------------------------------------------------------
(* Keyword variant: dictionaries *)

\* the trigger keywords with a keyword of the event type accident added
trigger_patterns_with_accident ==
    <<"grounded", "grounding", "ran aground", "struck",
      "hit", "collided", "beached", "stranded",
      "stuck", "lodged", "foundered", "aground", "accident">>

trigger_patterns ==
    <<"grounded", "grounding", "ran aground", "struck",
      "hit", "collided", "beached", "stranded",
      "stuck", "lodged", "foundered", "aground">>

EventTypes == <<"grounding", "collision", "stranding", "accident">>

event_type_patterns ==
    [grounding |-> <<"grounding", "grounded", "ran aground", "aground">>,
     collision |-> <<"struck", "hit", "collided", "collision">>,
     stranding |-> <<"stranded", "beached", "stuck", "lodged">>,
     accident |-> <<"accident", "incident", "casualty", "mishap">>]

----------------------------------------------------------------------------
(* Keyword variant: triggers and event type *)

RECURSIVE TriggersFrom(_, _)
\* the loop over trigger_patterns from index k on
TriggersFrom(text_lower, k) ==
    IF k > Len(trigger_patterns) THEN <<>>
    ELSE LET pattern == trigger_patterns[k]
             ms == FindIter(pattern, text_lower, 0, FALSE)
         IN [i \in DOMAIN ms |-> <<pattern, ms[i][1], ms[i][2]>>]
            \o TriggersFrom(text_lower, k + 1)

extract_trigger_words(text) == TriggersFrom(Lower(text), 1)

\* type_scores[event_type] after the counting loop
TypeScore(triggers, event_type) ==
    Cardinality({i \in DOMAIN triggers :
                    triggers[i][1] \in Range(event_type_patterns[event_type])})

\* the last key, in declaration order, whose score no key exceeds
MaxTypeLast(triggers) ==
    LET best == CHOOSE k \in DOMAIN EventTypes :
                    /\ \A j \in DOMAIN EventTypes :
                          TypeScore(triggers, EventTypes[j])
                              <= TypeScore(triggers, EventTypes[k])
                    /\ \A j \in (k + 1)..Len(EventTypes) :
                          TypeScore(triggers, EventTypes[j])
                              < TypeScore(triggers, EventTypes[k])
    IN EventTypes[best]

\* max(type_scores, key=type_scores.get): the first key, in declaration
\* order, whose score no key exceeds
MaxType(triggers) ==
    LET best == CHOOSE k \in DOMAIN EventTypes :
                    /\ \A j \in DOMAIN EventTypes :
                          TypeScore(triggers, EventTypes[j])
                              <= TypeScore(triggers, EventTypes[k])
                    /\ \A j \in 1..(k - 1) :
                          TypeScore(triggers, EventTypes[j])
                              < TypeScore(triggers, EventTypes[k])
    IN EventTypes[best]

\* extract_event_type without its test for an empty trigger list
extract_event_type_unguarded(triggers) ==
    LET max_type == MaxType(triggers)
    IN IF TypeScore(triggers, max_type) > 0 THEN max_type ELSE "grounding"

extract_event_type(triggers) ==
    IF triggers = <<>> THEN "unknown"
    ELSE LET max_type == MaxType(triggers)
         IN IF TypeScore(triggers, max_type) > 0 THEN max_type
            ELSE "grounding"

----------------------------------------------------------------------------
(* The linguistic analyzer's document: tokens, entities, noun chunks *)

\* the number of consecutive spaces of s from 1-based index i on
SpaceRun(s, i) ==
    LET stops == {j \in i..Len(s) : CharAt(s, j) # " "}
    IN IF i > Len(s) THEN 0
       ELSE IF stops = {} THEN Len(s) + 1 - i
       ELSE Least(stops) - i

\* the number of consecutive non-space characters of s from index i on
WordRun(s, i) ==
    LET stops == {j \in i..Len(s) : CharAt(s, j) = " "}
    IN IF i > Len(s) THEN 0
       ELSE IF stops = {} THEN Len(s) + 1 - i
       ELSE Least(stops) - i

RECURSIVE TokenizeFrom(_, _)
\* the tokenizer on letters and spaces: a run of non-space characters is a
\* token and owns one following space (ws); further spaces, and spaces at
\* the start of the text, form a whitespace token; lower is token.lower_
TokenizeFrom(s, i) ==
    IF i > Len(s) THEN <<>>
    ELSE IF CharAt(s, i) = " "
         THEN LET n == SpaceRun(s, i)
              IN <<[text |-> SubSeq(s, i, i + n - 1), ws |-> FALSE,
                    space |-> TRUE,
                    lower |-> Lower(SubSeq(s, i, i + n - 1))]>>
                 \o TokenizeFrom(s, i + n)
         ELSE LET n == WordRun(s, i)
                  w == i + n <= Len(s)
              IN <<[text |-> SubSeq(s, i, i + n - 1), ws |-> w,
                    space |-> FALSE,
                    lower |-> Lower(SubSeq(s, i, i + n - 1))]>>
                 \o TokenizeFrom(s, IF w THEN i + n + 1 ELSE i + n)

Tokenize(s) == TokenizeFrom(s, 1)

RECURSIVE SpanText(_, _, _)
\* doc[start:end].text over 1-based token indices start..end
SpanText(tokens, start, end) ==
    IF start > end THEN ""
    ELSE IF start = end THEN tokens[start].text
         ELSE tokens[start].text
              \o (IF tokens[start].ws THEN " " ELSE "")
              \o SpanText(tokens, start + 1, end)

----------------------------------------------------------------------------
(* Keyword variant: arguments *)

ArgTypes == <<"vessel", "location", "cause", "time", "damage", "response">>

argument_patterns ==
    [vessel |-> <<"ship", "vessel", "tanker", "cargo ship", "container ship",
                  "bulk carrier", "cruise ship", "ferry", "boat",
                  "MV", "MT", "MS">>,
     location |-> <<"reef", "rock", "shoal", "sandbar", "beach", "coast",
                    "harbor", "port", "channel", "strait", "bay", "island",
                    "waters", "sea", "ocean">>,
     cause |-> <<"weather", "storm", "fog", "wind", "wave", "current",
                 "navigation error", "mechanical failure", "engine failure",
                 "steering failure", "human error", "poor visibility">>,
     time |-> <<"morning", "afternoon", "evening", "night", "dawn", "dusk",
                "Monday", "Tuesday", "Wednesday", "Thursday", "Friday",
                "Saturday", "Sunday",
                "January", "February", "March", "April", "May", "June",
                "July", "August", "September", "October", "November",
                "December">>,
     damage |-> <<"damage", "breach", "hole", "crack", "oil spill",
                  "pollution", "leak", "flooding", "listing", "capsized">>,
     response |-> <<"rescue", "salvage", "tow", "refloat", "evacuate",
                    "Coast Guard", "emergency", "response", "assist">>]

\* the substrings one pattern contributes
PatternMatches(text, text_lower, pattern) ==
    IF Contains(text_lower, Lower(pattern))
    THEN LET ms == FindIter(pattern, text_lower, 0, TRUE)
         IN [i \in DOMAIN ms |-> Slice(text, ms[i][1], ms[i][2])]
    ELSE <<>>

RECURSIVE KeywordArgsFrom(_, _, _, _)
\* step 1 of extract_arguments for one category, from pattern k on
KeywordArgsFrom(text, text_lower, patterns, k) ==
    IF k > Len(patterns) THEN <<>>
    ELSE PatternMatches(text, text_lower, patterns[k])
         \o KeywordArgsFrom(text, text_lower, patterns, k + 1)

KeywordArgs(text, arg_type) ==
    KeywordArgsFrom(text, Lower(text), argument_patterns[arg_type], 1)

\* step 2 without the test for "guard", "rescue" and "maritime"
EntityCategory_no_guard(ent) ==
    IF ent.label \in {"GPE", "LOC", "FAC"} THEN "location"
    ELSE IF ent.label \in {"DATE", "TIME"} THEN "time"
    ELSE IF ent.label \in {"ORG"} THEN "vessel"
    ELSE "none"

\* step 2 of extract_arguments: the category an entity goes to, or "none"
EntityCategory(ent) ==
    IF ent.label \in {"GPE", "LOC", "FAC"} THEN "location"
    ELSE IF ent.label \in {"DATE", "TIME"} THEN "time"
    ELSE IF ent.label \in {"ORG"}
         THEN IF \E keyword \in {"guard", "rescue", "maritime"} :
                     Contains(Lower(ent.text), keyword)
              THEN "response"
              ELSE "vessel"
         ELSE "none"

RECURSIVE EntityArgsFrom(_, _, _)
EntityArgsFrom(ents, arg_type, k) ==
    IF k > Len(ents) THEN <<>>
    ELSE (IF EntityCategory(ents[k]) = arg_type THEN <<ents[k].text>>
          ELSE <<>>)
         \o EntityArgsFrom(ents, arg_type, k + 1)

EntityArgs(d, arg_type) == EntityArgsFrom(d.ents, arg_type, 1)

\* step 3 of extract_arguments: proper-noun subjects of a trigger word
IsTriggerSubject(d, k) ==
    LET token == d.tokens[k]
    IN /\ token.pos = "PROPN"
       /\ token.dep \in {"nsubj", "nsubjpass"}
       /\ \E i \in DOMAIN trigger_patterns :
              Contains(d.tokens[token.head].lower, trigger_patterns[i])

RECURSIVE SubjectArgsFrom(_, _)
SubjectArgsFrom(d, k) ==
    IF k > Len(d.tokens) THEN <<>>
    ELSE (IF IsTriggerSubject(d, k) THEN <<d.tokens[k].text>> ELSE <<>>)
         \o SubjectArgsFrom(d, k + 1)

SubjectArgs(d, arg_type) ==
    IF arg_type = "vessel" THEN SubjectArgsFrom(d, 1) ELSE <<>>

\* list(set(xs)): every distinct string once, in no particular order
ListSet(xs) == SetToBag(Range(xs))

\* a list kept as it is, up to order
ListBag(xs) ==
    [x \in Range(xs) |-> Cardinality({i \in DOMAIN xs : xs[i] = x})]

----------------------------------------------------------------------------
(* Matcher variant: token patterns *)

L(vals) == [attr |-> "LOWER", vals |-> vals]
T(vals) == [attr |-> "TEXT", vals |-> vals]
P(vals) == [attr |-> "POS", vals |-> vals]
E(vals) == [attr |-> "ENT_TYPE", vals |-> vals]

PrefixWords == {"MV", "MT", "MS", "SS"}

matcher_trigger_patterns ==
    <<<<L({"grounded"})>>,
      <<L({"grounding"})>>,
      <<L({"ran"}), L({"aground"})>>,
      <<L({"struck"})>>,
      <<L({"hit"})>>,
      <<L({"collided"})>>,
      <<L({"beached"})>>,
      <<L({"stranded"})>>,
      <<L({"stuck"})>>,
      <<L({"vessel"}), L({"grounded", "struck", "hit"})>>,
      <<L({"ship"}), L({"grounded", "struck", "hit"})>> >>

vessel_patterns ==
    <<<<T(PrefixWords), P({"PROPN"})>>,
      <<T(PrefixWords), P({"PROPN"}), P({"PROPN"})>>,
      <<L({"cargo", "container", "bulk", "cruise"}), L({"ship"}),
        P({"PROPN"})>>,
      <<L({"ferry"}), P({"PROPN"})>>,
      <<L({"tanker"}), P({"PROPN"})>> >>

location_patterns ==
    <<<<L({"reef", "rock", "shoal", "sandbar", "beach", "coast"})>>,
      <<L({"harbor", "port", "channel", "strait", "bay"})>>,
      <<L({"near"}), E({"GPE", "LOC"})>>,
      <<L({"in"}), E({"GPE", "LOC"})>>,
      <<L({"off"}), E({"GPE", "LOC"})>> >>

cause_patterns ==
    <<<<L({"weather", "storm", "fog", "wind", "wave"})>>,
      <<L({"strong"}), L({"wind", "current", "wave"})>>,
      <<L({"poor"}), L({"visibility"})>>,
      <<L({"navigation", "mechanical", "engine", "steering"}),
        L({"error", "failure"})>>,
      <<L({"human"}), L({"error"})>> >>

damage_patterns ==
    <<<<L({"damage", "breach", "hole", "crack", "leak"})>>,
      <<L({"oil"}), L({"spill"})>>,
      <<L({"hull"}), L({"damage"})>>,
      <<L({"minor", "major", "severe"}), L({"damage"})>> >>

response_patterns ==
    <<<<L({"rescue", "salvage", "tow", "refloat", "evacuate"})>>,
      <<L({"coast"}), L({"guard"})>>,
      <<L({"emergency"}), L({"response"})>>,
      <<L({"dispatched", "deployed", "sent"}),
        L({"team", "crews", "vessels"})>> >>

\* the patterns added to the Matcher under each key
MatcherPatterns ==
    [TRIGGER |-> matcher_trigger_patterns,
     VESSEL |-> vessel_patterns,
     LOCATION |-> location_patterns,
     CAUSE |-> cause_patterns,
     DAMAGE |-> damage_patterns,
     RESPONSE |-> response_patterns]

\* one token constraint of a pattern
TokenMatches(token, c) ==
    IF c.attr = "LOWER" THEN token.lower \in c.vals
    ELSE IF c.attr = "TEXT" THEN token.text \in c.vals
    ELSE IF c.attr = "POS" THEN token.pos \in c.vals
    ELSE token.ent_type \in c.vals

\* the pattern matches the tokens start .. start + Len(pattern) - 1
PatternAt(tokens, pattern, start) ==
    /\ start + Len(pattern) - 1 <= Len(tokens)
    /\ \A k \in DOMAIN pattern : TokenMatches(tokens[start + k - 1], pattern[k])

RECURSIVE PatternSpans(_, _, _)
\* the texts of the spans one pattern matches, from token index start on
PatternSpans(tokens, pattern, start) ==
    IF start > Len(tokens) THEN <<>>
    ELSE (IF PatternAt(tokens, pattern, start)
          THEN <<SpanText(tokens, start, start + Len(pattern) - 1)>>
          ELSE <<>>)
         \o PatternSpans(tokens, pattern, start + 1)

RECURSIVE MatchesFrom(_, _, _)
MatchesFrom(tokens, patterns, k) ==
    IF k > Len(patterns) THEN <<>>
    ELSE PatternSpans(tokens, patterns[k], 1)
         \o MatchesFrom(tokens, patterns, k + 1)

\* extract_with_matcher: extracted[key], the span texts matched under label
extract_with_matcher(d, label) ==
    MatchesFrom(d.tokens, MatcherPatterns[label], 1)

----------------------------------------------------------------------------
(* Matcher variant: entities and dependencies *)

RECURSIVE EntsWithFrom(_, _, _)
EntsWithFrom(ents, labels, k) ==
    IF k > Len(ents) THEN <<>>
    ELSE (IF ents[k].label \in labels THEN <<ents[k].text>> ELSE <<>>)
         \o EntsWithFrom(ents, labels, k + 1)

\* extract_with_ner: extracted[key]
extract_with_ner(d, key) ==
    IF key = "organizations" THEN EntsWithFrom(d.ents, {"ORG"}, 1)
    ELSE IF key = "locations"
         THEN EntsWithFrom(d.ents, {"GPE", "LOC", "FAC"}, 1)
    ELSE IF key = "times" THEN EntsWithFrom(d.ents, {"DATE", "TIME"}, 1)
    ELSE IF key = "persons" THEN EntsWithFrom(d.ents, {"PERSON"}, 1)
    ELSE <<>>

trigger_verbs == {"grounded", "grounding", "struck", "hit", "collided",
                  "beached", "stranded", "stuck", "ran"}

\* _get_noun_phrase: the text of the first chunk holding token k, else the
\* token's text
get_noun_phrase(d, k) ==
    LET holding == {c \in DOMAIN d.noun_chunks :
                       d.noun_chunks[c][1] <= k /\ k <= d.noun_chunks[c][2]}
    IN IF holding = {} THEN d.tokens[k].text
       ELSE LET c == CHOOSE c \in holding : \A o \in holding : c <= o
            IN SpanText(d.tokens, d.noun_chunks[c][1], d.noun_chunks[c][2])

\* token.children: the tokens whose head is token k
Children(d, k) == {c \in DOMAIN d.tokens : c # k /\ d.tokens[c].head = k}

RECURSIVE SeqOfSet(_)
\* the members of a set of token indices, in document order
SeqOfSet(S) ==
    IF S = {} THEN <<>>
    ELSE LET m == CHOOSE m \in S : \A o \in S : m <= o
         IN <<m>> \o SeqOfSet(S \ {m})

IsTriggerVerb(token) ==
    token.lemma \in trigger_verbs \/ token.lower \in trigger_verbs

\* the noun phrases of the children of token k with a label in deps
ChildPhrases(d, k, deps) ==
    LET cs == SeqOfSet({c \in Children(d, k) : d.tokens[c].dep \in deps})
        ph == [i \in DOMAIN cs |-> get_noun_phrase(d, cs[i])]
    IN SelectSeq(ph, LAMBDA x : x # "")

RECURSIVE GrandPhrases(_, _)
\* the noun phrases of the pobj children of the prep children ks
GrandPhrases(d, ks) ==
    IF ks = <<>> THEN <<>>
    ELSE ChildPhrases(d, Head(ks), {"pobj"}) \o GrandPhrases(d, Tail(ks))

RECURSIVE DependencyFrom(_, _, _)
DependencyFrom(d, key, k) ==
    IF k > Len(d.tokens) THEN <<>>
    ELSE LET token == d.tokens[k]
             here ==
                 IF key = "vessels" /\ IsTriggerVerb(token)
                 THEN ChildPhrases(d, k, {"nsubj", "nsubjpass"})
                 ELSE IF key = "locations" /\ IsTriggerVerb(token)
                 THEN GrandPhrases(d, SeqOfSet({c \in Children(d, k) :
                                          d.tokens[c].dep = "prep"}))
                 ELSE IF key = "causes"
                         /\ token.lower \in {"due", "caused", "because"}
                 THEN ChildPhrases(d, k, {"pobj", "agent"})
                 ELSE <<>>
         IN here \o DependencyFrom(d, key, k + 1)

\* extract_with_dependency: extracted[key]
extract_with_dependency(d, key) == DependencyFrom(d, key, 1)

\* _determine_event_type with "unknown" for its last branch
determine_event_type_no_fallback(triggers) ==
    LET triggers_lower == {Lower(triggers[i]) : i \in DOMAIN triggers}
    IN IF triggers = <<>> THEN "unknown"
       ELSE IF \E t \in {"grounding", "grounded", "ran aground"} :
                   t \in triggers_lower
            THEN "grounding"
       ELSE IF \E t \in {"struck", "hit", "collided"} : t \in triggers_lower
            THEN "collision_grounding"
       ELSE IF \E t \in {"stranded", "beached", "stuck"} : t \in triggers_lower
            THEN "stranding"
       ELSE "unknown"

\* _determine_event_type
determine_event_type(triggers) ==
    LET triggers_lower == {Lower(triggers[i]) : i \in DOMAIN triggers}
    IN IF triggers = <<>> THEN "unknown"
       ELSE IF \E t \in {"grounding", "grounded", "ran aground"} :
                   t \in triggers_lower
            THEN "grounding"
       ELSE IF \E t \in {"struck", "hit", "collided"} : t \in triggers_lower
            THEN "collision_grounding"
       ELSE IF \E t \in {"stranded", "beached", "stuck"} : t \in triggers_lower
            THEN "stranding"
       ELSE "marine_accident"

----------------------------------------------------------------------------
(* Input texts *)

Pieces == {"stuck ", "ran aground ", "Hit ", "un", DotI, " "}

NamePieces == {"Smith Ferry ", "Coast Guard ", "stuck "}

RECURSIVE TextsUpTo(_, _)
\* the concatenations of at most n of the pieces
TextsUpTo(pieces, n) ==
    IF n = 0 THEN {""}
    ELSE LET shorter == TextsUpTo(pieces, n - 1)
         IN shorter \cup {t \o p : t \in shorter, p \in pieces}

RECURSIVE Repeat(_, _)
\* n copies of s
Repeat(s, n) == IF n = 0 THEN "" ELSE s \o Repeat(s, n - 1)

\* a text of exactly 200 characters, and one of 207 with a trigger word
\* after the 200th
BorderText == Repeat("un", 100)

LongText == BorderText \o " stuck "

\* further texts: an argument keyword after a dotted capital I, a keyword
\* of the event type accident, and the two long texts
SpecialTexts == {DotI \o "Coast Guard ", "accident ", BorderText, LongText}

\* the texts handed to extract: words and word fragments, names, and the
\* further texts
Texts ==
    TextsUpTo(Pieces, MaxPieces) \cup TextsUpTo(NamePieces, MaxNames)
        \cup SpecialTexts

\* the lines typed at the prompts of the read loop
Lines == {"", " ", "quit", "QUIT", "exit", "Q", "quit ", "y", "stuck ",
          "Hit ", "Coast Guard "}

\* what the two scans of a text by the keyword variant find, computed once
\* for every text
TriggerTable == [t \in Texts \cup Lines |-> extract_trigger_words(t)]

KeywordArgsTable ==
    [t \in Texts \cup Lines |-> [c \in Range(ArgTypes) |-> KeywordArgs(t, c)]]

----------------------------------------------------------------------------
(* Results of extract *)

MatcherArgTypes == <<"vessels", "locations", "times", "causes", "damages",
                     "responses", "persons">>

AllArgTypes == Range(ArgTypes) \cup Range(MatcherArgTypes)

NoLists == [c \in AllArgTypes |-> <<>>]

NoParts ==
    [triggers |-> <<>>, pattern |-> NoLists, entity |-> NoLists,
     dependency |-> NoLists]

\* the dict {} as an arguments mapping
NoArguments == [keys |-> {}, of |-> [c \in AllArgTypes |-> EmptyBag]]

\* no call has returned yet
NoResult ==
    [made |-> FALSE, keys |-> {}, text |-> "", trigger_words |-> EmptyBag,
     event_type |-> "", arguments |-> NoArguments, trigger_positions |-> <<>>]

\* the dict {} as a result
EmptyDict == [NoResult EXCEPT !.made = TRUE]

NoDoc == [tokens |-> <<>>, ents |-> <<>>, noun_chunks |-> <<>>]

\* the trigger list, and the lists each step of extract_arguments appends to
\* each category
KeywordParts(text, d) ==
    [triggers |-> TriggerTable[text],
     pattern |-> [c \in AllArgTypes |->
                    IF c \in Range(ArgTypes) THEN KeywordArgsTable[text][c]
                    ELSE <<>>],
     entity |-> [c \in AllArgTypes |->
                    IF c \in Range(ArgTypes) THEN EntityArgs(d, c) ELSE <<>>],
     dependency |-> [c \in AllArgTypes |->
                    IF c \in Range(ArgTypes) THEN SubjectArgs(d, c)
                    ELSE <<>>]]

\* extract_arguments with a key for the categories it found something for
\* only
extract_arguments_sparse(ps, loaded) ==
    IF ~loaded THEN NoArguments
    ELSE [keys |-> {c \in Range(ArgTypes) :
                      ps.pattern[c] \o ps.entity[c] \o ps.dependency[c]
                          # <<>>},
          of |-> [c \in AllArgTypes |->
                    ListSet(ps.pattern[c] \o ps.entity[c]
                            \o ps.dependency[c])]]

\* extract_arguments, ps being the lists its three steps append
extract_arguments(ps, loaded) ==
    IF ~loaded THEN NoArguments
    ELSE [keys |-> Range(ArgTypes),
          of |-> [c \in AllArgTypes |->
                    ListSet(ps.pattern[c] \o ps.entity[c]
                            \o ps.dependency[c])]]

\* GroundingEventExtractor.extract
KeywordExtract(text, ps, loaded) ==
    LET triggers == ps.triggers
    IN [made |-> TRUE,
        keys |-> {"text", "trigger_words", "event_type", "arguments",
                  "trigger_positions"},
        text |-> text,
        trigger_words |-> ListBag([i \in DOMAIN triggers |-> triggers[i][1]]),
        event_type |-> extract_event_type(triggers),
        arguments |-> extract_arguments(ps, loaded),
        trigger_positions |-> triggers]

ShipWords == <<"ship", "vessel", "tanker", "ferry", "MV", "MT", "MS">>

\* the organizations that extract adds to "vessels"
ShipOrgs(orgs) ==
    SelectSeq(orgs, LAMBDA org :
        \E k \in DOMAIN ShipWords : Contains(Lower(org), ShipWords[k]))

MatcherKey(c) ==
    CASE c = "vessels" -> "VESSEL"
      [] c = "locations" -> "LOCATION"
      [] c = "causes" -> "CAUSE"
      [] c = "damages" -> "DAMAGE"
      [] c = "responses" -> "RESPONSE"
      [] OTHER -> "NONE"

\* the trigger list, and the lists each strategy contributes to each
\* category of the merged result
MatcherParts(d) ==
    [triggers |-> extract_with_matcher(d, "TRIGGER"),
     pattern |-> [c \in AllArgTypes |->
                    IF MatcherKey(c) # "NONE"
                    THEN extract_with_matcher(d, MatcherKey(c)) ELSE <<>>],
     entity |-> [c \in AllArgTypes |->
                    IF c = "vessels"
                    THEN ShipOrgs(extract_with_ner(d, "organizations"))
                    ELSE IF c \in {"locations", "times", "persons"}
                    THEN extract_with_ner(d, c)
                    ELSE <<>>],
     dependency |-> [c \in AllArgTypes |->
                    IF c \in Range(MatcherArgTypes) \ {"persons"}
                    THEN extract_with_dependency(d, c) ELSE <<>>]]

\* the "arguments" mapping built by SpacyGroundingExtractor.extract
MatcherArguments(ps) ==
    [keys |-> Range(MatcherArgTypes),
     of |-> [c \in AllArgTypes |->
               IF c = "persons" THEN ListBag(ps.entity[c])
               ELSE IF c \in Range(MatcherArgTypes)
               THEN ListSet(ps.pattern[c] \o ps.entity[c]
                            \o ps.dependency[c])
               ELSE EmptyBag]]

TextLimit == 200

\* SpacyGroundingExtractor.extract cutting a text of 200 characters too
MatcherExtract_cut_at_limit(text, ps, loaded) ==
    IF ~loaded THEN EmptyDict
    ELSE LET triggers == ps.triggers
         IN [made |-> TRUE,
             keys |-> {"text", "trigger_words", "event_type", "arguments",
                       "linguistic_features"},
             text |-> IF Len(text) >= TextLimit
                      THEN SubSeq(text, 1, TextLimit) \o "..." ELSE text,
             trigger_words |-> ListSet(triggers),
             event_type |-> determine_event_type(triggers),
             arguments |-> MatcherArguments(ps),
             trigger_positions |-> <<>>]

\* SpacyGroundingExtractor.extract
MatcherExtract(text, ps, loaded) ==
    IF ~loaded THEN EmptyDict
    ELSE LET triggers == ps.triggers
         IN [made |-> TRUE,
             keys |-> {"text", "trigger_words", "event_type", "arguments",
                       "linguistic_features"},
             text |-> IF Len(text) > TextLimit
                      THEN SubSeq(text, 1, TextLimit) \o "..." ELSE text,
             trigger_words |-> ListSet(triggers),
             event_type |-> determine_event_type(triggers),
             arguments |-> MatcherArguments(ps),
             trigger_positions |-> <<>>]

----------------------------------------------------------------------------
(* The documents the analyzer may return for a text *)

\* the span texts the analyzer may tag as a named entity, and the labels
Names == {"Smith", "Smith Ferry", "Coast Guard"}

EntLabels == {"GPE", "DATE", "ORG", "PERSON"}

\* the token spans <<first, last>> that may be entities
NameSpans(toks) ==
    {sp \in (DOMAIN toks) \X (DOMAIN toks) :
        /\ sp[1] <= sp[2]
        /\ sp[2] <= sp[1] + 1
        /\ SpanText(toks, sp[1], sp[2]) \in Names}

Disjoint(S) ==
    \A a \in S : \A b \in S : a # b => (a[2] < b[1] \/ b[2] < a[1])

RECURSIVE SortSpans(_)
SortSpans(S) ==
    IF S = {} THEN <<>>
    ELSE LET m == CHOOSE m \in S : \A o \in S : m[1] <= o[1]
         IN <<m>> \o SortSpans(S \ {m})

\* the entity lists the analyzer may return: disjoint spans in document
\* order, each under one of the labels
EntityLists(toks, labels) ==
    LET spanSets == {S \in SUBSET NameSpans(toks) : Disjoint(S)}
    IN UNION {LET sps == SortSpans(S)
              IN {[k \in DOMAIN sps |->
                     [text |-> SpanText(toks, sps[k][1], sps[k][2]),
                      label |-> lab[k],
                      first |-> sps[k][1], last |-> sps[k][2]]]
                  : lab \in [DOMAIN sps -> labels]}
              : S \in spanSets}

Flat(n) == [k \in 1..n |-> [pos |-> "X", dep |-> "ROOT", head |-> k]]

SubjectTags == {<<"nsubj", "PROPN">>, <<"nsubjpass", "PROPN">>,
                <<"nsubj", "NOUN">>, <<"dobj", "PROPN">>}

\* the parses the analyzer may return for n tokens: no arc, one token
\* attached to the token after it, or a verb, its preposition and the
\* preposition's object
Parses(n) ==
    {Flat(n)}
    \cup {[Flat(n) EXCEPT ![i] = [pos |-> tg[2], dep |-> tg[1],
                                  head |-> i + 1]]
          : <<i, tg>> \in (1..(n - 1)) \X SubjectTags}
    \cup {[Flat(n) EXCEPT ![i + 1] = [pos |-> "ADP", dep |-> "prep",
                                       head |-> i],
                          ![i + 2] = [pos |-> "NOUN", dep |-> "pobj",
                                       head |-> i + 1]]
          : i \in 1..(n - 2)}

EntTypeOf(ents, k) ==
    IF \E e \in DOMAIN ents : ents[e].first <= k /\ k <= ents[e].last
    THEN ents[CHOOSE e \in DOMAIN ents :
                  ents[e].first <= k /\ k <= ents[e].last].label
    ELSE ""

\* the document made of tokens, a parse and an entity list; the noun chunks
\* are the entity spans
MakeDoc(toks, parse, ents) ==
    [tokens |-> [k \in DOMAIN toks |->
                   [text |-> toks[k].text, ws |-> toks[k].ws,
                    lower |-> toks[k].lower,
                    lemma |-> toks[k].lower,
                    pos |-> IF toks[k].space THEN "SPACE" ELSE parse[k].pos,
                    dep |-> parse[k].dep, head |-> parse[k].head,
                    ent_type |-> EntTypeOf(ents, k)]],
     ents |-> [k \in DOMAIN ents |->
                 [text |-> ents[k].text, label |-> ents[k].label]],
     noun_chunks |-> [k \in DOMAIN ents |-> <<ents[k].first, ents[k].last>>]]

\* self.nlp(text): the documents the analyzer may return, entities under any
\* labels without dependency arcs, or a parse with organization entities
Analyses(text) ==
    LET toks == Tokenize(text)
    IN {MakeDoc(toks, Flat(Len(toks)), ents)
           : ents \in EntityLists(toks, EntLabels)}
       \cup {MakeDoc(toks, parse, ents)
              : parse \in Parses(Len(toks)) \ {Flat(Len(toks))},
                ents \in EntityLists(toks, {"ORG"})}

RECURSIVE SeqsUpTo(_, _)
\* the sequences over S of length at most n
SeqsUpTo(S, n) ==
    IF n = 0 THEN {<<>>}
    ELSE LET shorter == SeqsUpTo(S, n - 1)
         IN shorter \cup {Append(q, x) : q \in shorter, x \in S}

\* trigger lists handed to the resolvers directly
ResolverWords == {"grounded", "hit", "Hit", "stuck", "foundered",
                  "ship struck"}

TriggerLists == SeqsUpTo(ResolverWords, MaxTriggers)

----------------------------------------------------------------------------
(* The extractor and the read loop of main *)

\* str.strip() == ""
IsBlank(s) == \A i \in 1..Len(s) : CharAt(s, i) = " "

\* user_text in ['quit', 'exit', 'q'], without lower()
IsQuitExact(line) == line \in {"quit", "exit", "q"}

\* user_text.lower() in ['quit', 'exit', 'q']
IsQuit(line) == Lower(line) \in {"quit", "exit", "q"}

\* a termination line: quit, exit or q in any letter case
TerminationLine(line) ==
    \E w \in {"quit", "exit", "q"} :
       /\ Len(line) = Len(w)
       /\ \A i \in 1..Len(w) :
             \/ CharAt(line, i) = CharAt(w, i)
             \/ \E k \in DOMAIN UpperChars :
                   /\ UpperChars[k] = CharAt(line, i)
                   /\ LowerChars[k] = CharAt(w, i)

\* the documents extract can see for a text: none without the analyzer
Documents(text) == IF nlp THEN Analyses(text) ELSE {NoDoc}

\* what the strategies find; without the analyzer only the keyword variant's
\* trigger scan runs
PartsOf(text, d) ==
    IF variant = "keyword"
    THEN IF nlp THEN KeywordParts(text, d)
         ELSE [NoParts EXCEPT !.triggers = TriggerTable[text]]
    ELSE IF nlp THEN MatcherParts(d) ELSE NoParts

\* extract(text), ps being what the strategies find
Extract(text, ps) ==
    IF variant = "keyword" THEN KeywordExtract(text, ps, nlp)
    ELSE MatcherExtract(text, ps, nlp)

\* one call of extract on text, under every document the analyzer may return
ExtractCall(text) ==
    \E d \in Documents(text) :
       LET ps == PartsOf(text, d)
       IN /\ doc' = d
          /\ parts' = ps
          /\ result' = Extract(text, ps)
          /\ nExtract' = nExtract + 1

Init ==
    /\ variant \in {"keyword", "matcher"}
    /\ nlp \in BOOLEAN
    /\ pc = "start"
    /\ user_text = ""
    /\ doc = NoDoc
    /\ result = NoResult
    /\ parts = NoParts
    /\ nRead = 0
    /\ nOther = 0
    /\ nText = 0
    /\ nExtract = 0
    /\ nReport = 0
    /\ nJson = 0
    /\ lastLine = ""

\* main up to the read loop; the matcher variant's main returns at once
\* when the analyzer is missing
StartMain ==
    /\ pc = "start"
    /\ pc' = IF variant = "matcher" /\ ~nlp THEN "exit" ELSE "prompt"
    /\ UNCHANGED <<variant, nlp, user_text, doc, result, parts, nRead,
                   nOther, nText, nExtract, nReport, nJson, lastLine>>

\* user_text = input("> ") and the two tests that follow it
ReadLine(line) ==
    /\ pc = "prompt"
    /\ nRead < MaxLines
    /\ nRead' = nRead + 1
    /\ nOther' = IF TerminationLine(line) THEN nOther ELSE nOther + 1
    /\ nText' = IF TerminationLine(line) \/ IsBlank(line) THEN nText
               ELSE nText + 1
    /\ lastLine' = line
    /\ user_text' = line
    /\ pc' = IF IsQuit(line) THEN "exit"
             ELSE IF ~IsBlank(line) THEN "extract"
             ELSE "prompt"
    /\ UNCHANGED <<variant, nlp, doc, result, parts, nExtract, nReport,
                   nJson>>

\* result = extractor.extract(user_text)
LoopExtract ==
    /\ pc = "extract"
    /\ ExtractCall(user_text)
    /\ pc' = "display"
    /\ UNCHANGED <<variant, nlp, user_text, nRead, nOther, nText, nReport,
                   nJson, lastLine>>

\* extractor.display_results(result); the keyword variant's iteration ends
\* here and its result goes out of use
Display ==
    /\ pc = "display"
    /\ nReport' = nReport + 1
    /\ IF variant = "keyword"
       THEN /\ pc' = "prompt"
            /\ doc' = NoDoc
            /\ result' = NoResult
            /\ parts' = NoParts
       ELSE /\ pc' = "json"
            /\ UNCHANGED <<doc, result, parts>>
    /\ UNCHANGED <<variant, nlp, user_text, nRead, nOther, nText, nExtract,
                   nJson, lastLine>>

\* the matcher variant's second input("> "): the answer to the JSON question
ReadAnswer(line) ==
    /\ pc = "json"
    /\ nRead' = nRead + 1
    /\ nOther' = IF TerminationLine(line) THEN nOther ELSE nOther + 1
    /\ lastLine' = line
    /\ nJson' = IF Lower(line) = "y" THEN nJson + 1 ELSE nJson
    /\ pc' = "prompt"
    /\ doc' = NoDoc
    /\ result' = NoResult
    /\ parts' = NoParts
    /\ UNCHANGED <<variant, nlp, user_text, nText, nExtract, nReport>>

\* input() at the end of the input: EOFError, which main does not catch
EndOfInput ==
    /\ pc \in {"prompt", "json"}
    /\ pc' = "eof"
    /\ UNCHANGED <<variant, nlp, user_text, doc, result, parts, nRead,
                   nOther, nText, nExtract, nReport, nJson, lastLine>>

\* extract called on a text by a user of the class
CallExtract(text) ==
    /\ pc = "start"
    /\ user_text' = text
    /\ ExtractCall(text)
    /\ pc' = "returned"
    /\ UNCHANGED <<variant, nlp, nRead, nOther, nText, nReport, nJson, lastLine>>

\* the event type resolver called on a trigger list: extract_event_type on
\* triples in the keyword variant, _determine_event_type on strings in the
\* matcher variant
CallResolve(words) ==
    /\ pc = "start"
    /\ LET triggers == IF variant = "keyword"
                       THEN [i \in DOMAIN words |->
                               <<words[i], 0, Len(words[i])>>]
                       ELSE words
       IN /\ parts' = [NoParts EXCEPT !.triggers = triggers]
          /\ result' = [NoResult EXCEPT
                          !.event_type =
                             IF variant = "keyword"
                             THEN extract_event_type(triggers)
                             ELSE determine_event_type(triggers)]
    /\ pc' = "resolved"
    /\ UNCHANGED <<variant, nlp, user_text, doc, nRead, nOther, nText,
                   nExtract, nReport, nJson, lastLine>>

Next ==
    \/ StartMain
    \/ \E line \in Lines : ReadLine(line)
    \/ LoopExtract
    \/ Display
    \/ \E line \in Lines : ReadAnswer(line)
    \/ EndOfInput
    \/ \E text \in Texts : CallExtract(text)
    \/ \E words \in TriggerLists : CallResolve(words)

Spec == Init /\ [][Next]_vars

----------------------------------------------------------------------------
(* Vocabulary of the properties *)

\* extract has returned and its result is at hand
Extracted == result.made /\ pc \in {"returned", "display", "json"}

\* the event type resolver has returned, called by extract or directly
Resolved ==
    \/ Extracted /\ "event_type" \in result.keys
    \/ pc = "resolved"

\* the keyword or span text of every entry of the trigger list, in order
TriggerWords ==
    IF variant = "keyword"
    THEN [i \in DOMAIN parts.triggers |-> parts.triggers[i][1]]
    ELSE parts.triggers

\* the number of entries of the list xs equal to x
CountIn(xs, x) == Cardinality({i \in DOMAIN xs : xs[i] = x})

\* the offsets at which keyword kw occurs in s as a whole word, letter case
\* ignored
WholeWordOffsets(kw, s) ==
    {p \in 0..Len(s) :
        /\ p + Len(kw) <= Len(s)
        /\ ~(p >= 1 /\ IsWordChar(CharAt(s, p)))
        /\ ~(p + Len(kw) < Len(s) /\ IsWordChar(CharAt(s, p + Len(kw) + 1)))
        /\ Lower(SubSeq(s, p + 1, p + Len(kw))) = Lower(kw)}

----------------------------------------------------------------------------
(* C1 *)

\* C1: every triple (keyword, start, end) returned by extract_trigger_words
\* has a keyword of the trigger list, text[start:end] equal to the keyword
\* case-insensitively, and no word character before start or at end: a
\* keyword inside a longer word is never returned.
C1_TriggersAreWholeWords ==
    (variant = "keyword" /\ Extracted) =>
        \A i \in DOMAIN result.trigger_positions :
            LET kw == result.trigger_positions[i][1]
                start == result.trigger_positions[i][2]
                end == result.trigger_positions[i][3]
            IN /\ kw \in Range(trigger_patterns)
               /\ end = start + Len(kw)
               /\ Lower(Slice(user_text, start, end)) = Lower(kw)
               /\ start \in WholeWordOffsets(kw, user_text)

\* the same for texts without the capital I with dot above, the one
\* character whose lower-case form is two characters long
C1_HoldsWithoutDotI ==
    (~Contains(user_text, DotI)) => C1_TriggersAreWholeWords

\* a trigger keyword after a word fragment is not reported
C1_EmbeddedSkipped ==
    /\ variant = "keyword"
    /\ Extracted
    /\ user_text = "unstuck "
    /\ result.trigger_positions = <<>>

----------------------------------------------------------------------------
(* C2 *)

\* C2: the reported trigger list holds one entry per whole-word occurrence
\* of each trigger keyword, in both variants: repeated occurrences and
\* overlapping keywords are kept as separate entries, never merged.
C2_EveryOccurrenceReported ==
    (Extracted /\ "trigger_words" \in result.keys) =>
        IF variant = "keyword"
        THEN \A kw \in Range(trigger_patterns) :
                CopiesIn(kw, result.trigger_words)
                    = Cardinality(WholeWordOffsets(kw, user_text))
        ELSE \A w \in Range(parts.triggers) :
                CopiesIn(w, result.trigger_words) = CountIn(parts.triggers, w)

\* for every text and trigger keyword, the number of whole-word occurrences
\* of the keyword in the lower-cased text
LoweredOccurrences ==
    [t \in Texts \cup Lines |->
        [kw \in Range(trigger_patterns) |->
            Cardinality(WholeWordOffsets(kw, Lower(t)))]]

\* C2 as amended: the keyword variant reports one entry per whole-word
\* occurrence of each trigger keyword in the lower-cased text, repeated and
\* overlapping ones included; the matcher variant reports every distinct
\* matched span text once.
C2_OccurrencesOrDistinctSpans ==
    (Extracted /\ "trigger_words" \in result.keys) =>
        IF variant = "keyword"
        THEN /\ BagToSet(result.trigger_words) \subseteq Range(trigger_patterns)
             /\ \A kw \in Range(trigger_patterns) :
                   CopiesIn(kw, result.trigger_words)
                       = LoweredOccurrences[user_text][kw]
             /\ Len(result.trigger_positions)
                   = BagCardinality(result.trigger_words)
        ELSE /\ BagToSet(result.trigger_words) = Range(parts.triggers)
             /\ \A w \in Range(parts.triggers) :
                   CopiesIn(w, result.trigger_words) = 1

\* a keyword found twice, and the keyword inside it found twice as well
C2_RepeatedAndOverlapping ==
    /\ variant = "keyword"
    /\ Extracted
    /\ CopiesIn("ran aground", result.trigger_words) = 2
    /\ CopiesIn("aground", result.trigger_words) = 2

\* the matcher variant has merged two matches of the same span text
C2_MatcherMerged ==
    /\ variant = "matcher"
    /\ Extracted
    /\ CountIn(parts.triggers, "stuck") = 2
    /\ CopiesIn("stuck", result.trigger_words) = 1

----------------------------------------------------------------------------
(* C3, C4, C5 *)

\* the event types of each resolver in declaration order, with the keyword
\* set of each
DeclaredTypes ==
    IF variant = "keyword"
    THEN <<[name |-> "grounding",
            words |-> {"grounding", "grounded", "ran aground", "aground"}],
           [name |-> "collision",
            words |-> {"struck", "hit", "collided", "collision"}],
           [name |-> "stranding",
            words |-> {"stranded", "beached", "stuck", "lodged"}],
           [name |-> "accident",
            words |-> {"accident", "incident", "casualty", "mishap"}]>>
    ELSE <<[name |-> "grounding",
            words |-> {"grounding", "grounded", "ran aground"}],
           [name |-> "collision_grounding",
            words |-> {"struck", "hit", "collided"}],
           [name |-> "stranding",
            words |-> {"stranded", "beached", "stuck"}]>>

\* how many entries of the trigger list belong to the k-th type, counted
\* with multiplicity; the matcher variant compares in lower case
TriggerCount(k) ==
    Cardinality({i \in DOMAIN TriggerWords :
        (IF variant = "keyword" THEN TriggerWords[i]
         ELSE Lower(TriggerWords[i])) \in DeclaredTypes[k].words})

\* the k-th type has the largest count and is the first to have it
FirstWithLargestCount(k) ==
    /\ \A j \in DOMAIN DeclaredTypes : TriggerCount(j) <= TriggerCount(k)
    /\ \A j \in 1..(k - 1) : TriggerCount(j) < TriggerCount(k)

\* C3: for a non-empty trigger list the resolver of either variant returns
\* the type holding the most triggers, counted with multiplicity, and among
\* several such types the one declared first.
C3_LargestCountFirstDeclared ==
    (Resolved /\ TriggerWords # <<>>) =>
        \E k \in DOMAIN DeclaredTypes :
            /\ result.event_type = DeclaredTypes[k].name
            /\ FirstWithLargestCount(k)

\* C3 as amended: that holds of the keyword variant; the matcher variant
\* returns the first type, in the order grounding, collision_grounding,
\* stranding, that holds at least one trigger, whatever the counts, and
\* marine_accident when none does.
C3_CountOrPriority ==
    (Resolved /\ TriggerWords # <<>>) =>
        IF variant = "keyword"
        THEN \E k \in DOMAIN DeclaredTypes :
                /\ result.event_type = DeclaredTypes[k].name
                /\ FirstWithLargestCount(k)
        ELSE IF \A k \in DOMAIN DeclaredTypes : TriggerCount(k) = 0
             THEN result.event_type = "marine_accident"
             ELSE \E k \in DOMAIN DeclaredTypes :
                     /\ result.event_type = DeclaredTypes[k].name
                     /\ TriggerCount(k) > 0
                     /\ \A j \in 1..(k - 1) : TriggerCount(j) = 0

\* collision and stranding tie: collision, declared first, is returned
C3_TieGoesToFirstDeclared ==
    /\ variant = "keyword"
    /\ Resolved
    /\ TriggerCount(1) = 0
    /\ TriggerCount(2) = 1
    /\ TriggerCount(3) = 1
    /\ result.event_type = "collision"

\* the keyword variant returns a later type that outnumbers an earlier one
C3_MajorityBeatsOrder ==
    /\ variant = "keyword"
    /\ Resolved
    /\ TriggerCount(1) = 1
    /\ TriggerCount(3) = 2
    /\ result.event_type = "stranding"

\* C4: with no trigger match the event type is "unknown" in both variants,
\* while the arguments of the same extraction may be non-empty.
C4_NoTriggerIsUnknown ==
    (Resolved /\ parts.triggers = <<>>) => result.event_type = "unknown"

\* an extraction without a trigger and with an argument
C4_ArgumentsWithoutTrigger ==
    /\ variant = "keyword"
    /\ Extracted
    /\ parts.triggers = <<>>
    /\ result.event_type = "unknown"
    /\ \E c \in result.arguments.keys : result.arguments.of[c] # EmptyBag

\* the same in the matcher variant
C4_MatcherArgumentsWithoutTrigger ==
    /\ variant = "matcher"
    /\ Extracted
    /\ parts.triggers = <<>>
    /\ result.event_type = "unknown"
    /\ \E c \in result.arguments.keys : result.arguments.of[c] # EmptyBag

\* C5: a non-empty trigger list none of whose triggers belongs to any type
\* resolves to the fallback label, "grounding" in the keyword variant and
\* "marine_accident" in the matcher variant.
C5_FallbackLabel ==
    (/\ Resolved
     /\ TriggerWords # <<>>
     /\ \A k \in DOMAIN DeclaredTypes : TriggerCount(k) = 0) =>
        result.event_type = (IF variant = "keyword" THEN "grounding"
                             ELSE "marine_accident")

\* the matcher variant falls back
C5_MatcherFallsBack ==
    /\ variant = "matcher"
    /\ Resolved
    /\ TriggerWords # <<>>
    /\ \A k \in DOMAIN DeclaredTypes : TriggerCount(k) = 0
    /\ result.event_type = "marine_accident"

\* the keyword variant falls back
C5_KeywordFallsBack ==
    /\ variant = "keyword"
    /\ Resolved
    /\ TriggerWords # <<>>
    /\ \A k \in DOMAIN DeclaredTypes : TriggerCount(k) = 0
    /\ result.event_type = "grounding"

----------------------------------------------------------------------------
(* C6 *)

\* the argument categories of the running variant
Categories ==
    IF variant = "keyword" THEN Range(ArgTypes) ELSE Range(MatcherArgTypes)

VesselCategory == IF variant = "keyword" THEN "vessel" ELSE "vessels"

ResponseCategory == IF variant = "keyword" THEN "response" ELSE "responses"

\* the names that contain one of the words ws in any letter case
NamesWith(ws) ==
    {name \in Names :
        \E p \in 0..Len(name), w \in ws :
            /\ p + Len(w) <= Len(name)
            /\ Lower(SubSeq(name, p + 1, p + Len(w))) = w}

ResponderNames == NamesWith({"guard", "rescue", "maritime"})

ShipNames == NamesWith({"ship", "vessel", "tanker", "ferry"})

\* the entity's text contains guard, rescue or maritime in any letter case
NamesResponder(ent) == ent.text \in ResponderNames

\* the entity's lower-cased text contains one of the ship words
NamesShip(ent) == ent.text \in ShipNames

\* the texts, in document order, of the entities that place[k] sends to
\* category c
RECURSIVE PlacedFrom(_, _, _)
PlacedFrom(place, c, k) ==
    IF k > Len(doc.ents) THEN <<>>
    ELSE (IF c \in place[k] THEN <<doc.ents[k].text>> ELSE <<>>)
         \o PlacedFrom(place, c, k + 1)

\* the entity strategy has put every entity of the document into the
\* categories place gives it, and nowhere else
PlacedAs(place) ==
    \A c \in Categories : parts.entity[c] = PlacedFrom(place, c, 1)

\* C6: in both variants every entity goes to exactly one category, an
\* organization naming guard, rescue or maritime to response and never to
\* vessel, every other organization to vessel.
C6_OrganizationsResponseOrVessel ==
    (Extracted /\ nlp) =>
        \E category \in [DOMAIN doc.ents -> Categories] :
            /\ \A k \in DOMAIN doc.ents :
                  doc.ents[k].label = "ORG" =>
                      category[k] = IF NamesResponder(doc.ents[k])
                                    THEN ResponseCategory
                                    ELSE VesselCategory
            /\ PlacedAs([k \in DOMAIN doc.ents |-> {category[k]}])

\* where each variant places an entity
Placement(ent) ==
    IF variant = "keyword"
    THEN CASE ent.label \in {"GPE", "LOC", "FAC"} -> {"location"}
           [] ent.label \in {"DATE", "TIME"} -> {"time"}
           [] ent.label = "ORG" /\ NamesResponder(ent) -> {"response"}
           [] ent.label = "ORG" /\ ~NamesResponder(ent) -> {"vessel"}
           [] OTHER -> {}
    ELSE CASE ent.label \in {"GPE", "LOC", "FAC"} -> {"locations"}
           [] ent.label \in {"DATE", "TIME"} -> {"times"}
           [] ent.label = "PERSON" -> {"persons"}
           [] ent.label = "ORG" /\ NamesShip(ent) -> {"vessels"}
           [] OTHER -> {}

\* C6 as amended: every entity goes to at most one category. The keyword
\* variant sends an organization naming guard, rescue or maritime to
\* response and every other organization to vessel, and places no person.
\* The matcher variant sends an organization to vessels when its text names
\* a ship, vessel, tanker or ferry, whether or not it names a responder,
\* places no other organization, and sends no entity to responses.
C6_PlacementByVariant ==
    (Extracted /\ nlp) =>
        /\ PlacedAs([k \in DOMAIN doc.ents |-> Placement(doc.ents[k])])
        /\ \A k \in DOMAIN doc.ents : Cardinality(Placement(doc.ents[k])) <= 1

\* the keyword variant has classified the organization Coast Guard
C6_CoastGuardIsResponse ==
    /\ variant = "keyword"
    /\ Extracted
    /\ \E k \in DOMAIN doc.ents :
          doc.ents[k] = [text |-> "Coast Guard", label |-> "ORG"]
    /\ parts.entity["response"] = <<"Coast Guard">>
    /\ parts.entity["vessel"] = <<>>
    /\ CopiesIn("Coast Guard", result.arguments.of["response"]) = 1

\* the matcher variant has left the organization Coast Guard unplaced
C6_MatcherLeavesCoastGuard ==
    /\ variant = "matcher"
    /\ Extracted
    /\ \E k \in DOMAIN doc.ents :
          doc.ents[k] = [text |-> "Coast Guard", label |-> "ORG"]
    /\ \A c \in Categories : parts.entity[c] = <<>>

----------------------------------------------------------------------------
(* C7 *)

\* the strings the three strategies found for category c
Found(c) ==
    Range(parts.pattern[c]) \cup Range(parts.entity[c])
        \cup Range(parts.dependency[c])

\* the reported collection of category c is the strings found for it, each
\* once
UnionOnce(c) ==
    /\ BagToSet(result.arguments.of[c]) = Found(c)
    /\ \A x \in Found(c) : CopiesIn(x, result.arguments.of[c]) = 1

\* C7: every category of every result, in both variants, is the union of
\* the strings the strategies found for it and holds no string twice.
C7_UnionWithoutDuplicates ==
    (Extracted /\ "arguments" \in result.keys) =>
        \A c \in result.arguments.keys : UnionOnce(c)

\* every category but the matcher variant's persons is such a union
C7_HoldsExceptPersons ==
    (Extracted /\ "arguments" \in result.keys) =>
        \A c \in result.arguments.keys \ {"persons"} : UnionOnce(c)

\* one string found by two strategies is reported once
C7_MergedAcrossStrategies ==
    /\ Extracted
    /\ \E c \in result.arguments.keys :
          /\ Range(parts.pattern[c]) \cap Range(parts.entity[c]) # {}
          /\ UnionOnce(c)

----------------------------------------------------------------------------
(* C8, C9 *)

\* the result has an arguments mapping with every category of the variant
FullSchema ==
    /\ "arguments" \in result.keys
    /\ result.arguments.keys = Categories

\* no trigger, the type unknown, every category present and empty
EmptyOutcome ==
    /\ "trigger_words" \in result.keys
    /\ result.trigger_words = EmptyBag
    /\ "event_type" \in result.keys
    /\ result.event_type = "unknown"
    /\ FullSchema
    /\ \A c \in Categories : result.arguments.of[c] = EmptyBag

\* C8: every result of extract has every category key, for every input and
\* in every state of the extractor, and the result for "" is the empty
\* outcome.
C8_StableSchema ==
    Extracted => /\ FullSchema
                 /\ user_text = "" => EmptyOutcome

\* C8 as amended: that holds of an extractor whose analyzer is loaded.
\* Without the analyzer the keyword variant's arguments mapping has no key
\* at all and the matcher variant's result has no arguments mapping.
C8_SchemaWhenLoaded ==
    Extracted =>
        IF nlp
        THEN /\ FullSchema
             /\ user_text = "" => EmptyOutcome
        ELSE IF variant = "keyword"
             THEN "arguments" \in result.keys /\ result.arguments.keys = {}
             ELSE result.keys = {}

\* extract has returned the empty outcome for the empty string
C8_EmptyStringOutcome ==
    /\ Extracted
    /\ nlp
    /\ user_text = ""
    /\ EmptyOutcome

\* a whitespace-only text, likewise
C8_BlankOutcome ==
    /\ Extracted
    /\ nlp
    /\ user_text = " "
    /\ EmptyOutcome

\* C9: with the analyzer missing, the keyword variant's extract returns the
\* triggers, the event type and the keyword-substring arguments of the
\* text, and the matcher variant's extract returns an empty result.
C9_KeywordFallbackWithoutAnalyzer ==
    (Extracted /\ ~nlp) =>
        IF variant = "keyword"
        THEN /\ result.trigger_positions = TriggerTable[user_text]
             /\ "event_type" \in result.keys
             /\ result.event_type # ""
             /\ "arguments" \in result.keys
             /\ \A c \in Range(ArgTypes) :
                   Range(KeywordArgsTable[user_text][c])
                       \subseteq BagToSet(result.arguments.of[c])
        ELSE result.keys = {}

\* what does hold without the analyzer: triggers and event type in the
\* keyword variant, an empty result in the matcher variant
C9_TriggersWithoutAnalyzer ==
    (Extracted /\ ~nlp) =>
        IF variant = "keyword"
        THEN /\ result.trigger_positions = TriggerTable[user_text]
             /\ "event_type" \in result.keys
             /\ result.event_type # ""
             /\ result.arguments = NoArguments
        ELSE result.keys = {}

\* a trigger found without the analyzer
C9_TriggerFoundWithoutAnalyzer ==
    /\ variant = "keyword"
    /\ Extracted
    /\ ~nlp
    /\ result.trigger_positions # <<>>
    /\ result.event_type = "stranding"

----------------------------------------------------------------------------
(* C10 *)

\* C10: in both read loops a termination line ends the loop without an
\* extraction, every other line read runs one extraction and prints one
\* report, and the loop ends on a termination line only.
C10_EveryOtherLineExtracts ==
    /\ pc \in {"prompt", "exit", "eof"} =>
          nExtract = nOther /\ nReport = nOther
    /\ (nRead > 0 /\ TerminationLine(lastLine)) => pc = "exit"
    /\ (nRead > 0 /\ pc = "exit") => TerminationLine(lastLine)

\* C10 as amended: a termination line read at the prompt ends the loop
\* without an extraction. Every other line read at the prompt that is not
\* blank runs one extraction and prints one report; a blank line runs
\* nothing. In the matcher variant the line read after each report answers
\* the question about saving and neither extracts nor ends the loop,
\* whatever it is. The loop ends on a termination line only.
C10_NonBlankPromptLineExtracts ==
    /\ pc \in {"prompt", "json", "exit", "eof"} =>
          nExtract = nText /\ nReport = nText
    /\ pc = "extract" => nExtract = nText - 1 /\ nReport = nText - 1
    /\ pc = "display" => nExtract = nText /\ nReport = nText - 1
    /\ (nRead > 0 /\ pc = "exit") => TerminationLine(lastLine)
    /\ (variant = "keyword" /\ nRead > 0 /\ TerminationLine(lastLine)) =>
          pc = "exit"
    /\ (variant = "matcher" /\ nRead > 0 /\ TerminationLine(lastLine)) =>
          pc \in {"exit", "prompt", "eof"}

\* one line extracted and reported, then the loop ended by QUIT
C10_ExtractThenQuit ==
    /\ pc = "exit"
    /\ nExtract = 1
    /\ nReport = 1
    /\ lastLine = "QUIT"

\* a blank line read and nothing extracted
C10_BlankLineSkipped ==
    /\ pc = "prompt"
    /\ nRead = 1
    /\ lastLine = " "
    /\ nExtract = 0

\* the matcher variant has read quit as an answer and goes on
C10_QuitAsAnswer ==
    /\ variant = "matcher"
    /\ pc = "prompt"
    /\ lastLine = "quit"
    /\ nExtract = 1

----------------------------------------------------------------------------
(* C11 *)

\* the keywords of category c in declaration order
KeywordsOf(c) == argument_patterns[c]

\* s is a substring of the text
SubstringOfText(s) ==
    \E p \in 0..Len(user_text) :
        /\ p + Len(s) <= Len(user_text)
        /\ SubSeq(user_text, p + 1, p + Len(s)) = s

\* for every text and category, the substrings of the text at the whole-word
\* occurrences, letter case ignored, of the keywords of the category
KeywordOccurrences ==
    [t \in Texts \cup Lines |->
        [c \in Range(ArgTypes) |->
            UNION {{SubSeq(t, p + 1, p + Len(kw))
                      : p \in WholeWordOffsets(kw, t)}
                   : kw \in Range(KeywordsOf(c))}]]

\* C11: the keyword scan of extract_arguments adds to each category, for
\* every whole-word occurrence of one of its keywords in the text, letter
\* case ignored, the substring of the text at that occurrence; every entry
\* it adds is a substring of the text that equals a keyword of the category
\* up to letter case.
C11_KeywordEntriesAreSubstrings ==
    (variant = "keyword" /\ Extracted /\ nlp) =>
        \A c \in Range(ArgTypes) :
            /\ \A found \in KeywordOccurrences[user_text][c] :
                  /\ found \in Range(parts.pattern[c])
                  /\ CopiesIn(found, result.arguments.of[c]) = 1
            /\ \A i \in DOMAIN parts.pattern[c] :
                  /\ SubstringOfText(parts.pattern[c][i])
                  /\ \E k \in DOMAIN KeywordsOf(c) :
                        Lower(parts.pattern[c][i]) = Lower(KeywordsOf(c)[k])

\* the same for the texts without a dotted capital I
C11_HoldsWithoutDotI ==
    (~Contains(user_text, DotI)) => C11_KeywordEntriesAreSubstrings

\* the entry has the casing of the text, not that of the dictionary
C11_OriginalCasingKept ==
    /\ variant = "keyword"
    /\ Extracted
    /\ user_text = "Smith Ferry "
    /\ parts.pattern["vessel"] = <<"Ferry">>
    /\ CopiesIn("Ferry", result.arguments.of["vessel"]) = 1

\* after a dotted capital I the entry is cut one character late
C11_ShiftedEntry ==
    /\ variant = "keyword"
    /\ Extracted
    /\ nlp
    /\ user_text = DotI \o "Coast Guard "
    /\ parts.pattern["response"] = <<"oast Guard ">>

----------------------------------------------------------------------------
(* C12 *)

\* C12: the text field of every result of extract is the input text
\* unchanged, whatever its length, in both variants.
C12_TextUnchanged ==
    (Extracted /\ "text" \in result.keys) => result.text = user_text

\* C12 as amended: the keyword variant returns the input text unchanged.
\* The matcher variant returns a text of at most 200 characters unchanged
\* and a longer one as its first 200 characters followed by three dots.
C12_TextUnchangedOrCut ==
    (Extracted /\ "text" \in result.keys) =>
        IF variant = "keyword" \/ Len(user_text) <= 200
        THEN result.text = user_text
        ELSE result.text = SubSeq(user_text, 1, 200) \o "..."

\* the matcher variant has cut a text of 207 characters
C12_LongTextCut ==
    /\ variant = "matcher"
    /\ Extracted
    /\ Len(user_text) = 207
    /\ Len(result.text) = 203
    /\ result.text # user_text

\* the matcher variant has returned a text of 200 characters unchanged
C12_BorderTextKept ==
    /\ variant = "matcher"
    /\ Extracted
    /\ Len(user_text) = 200
    /\ result.text = user_text

\* the keyword variant has returned a text of 207 characters unchanged
C12_KeywordLongTextKept ==
    /\ variant = "keyword"
    /\ Extracted
    /\ Len(user_text) = 207
    /\ result.text = user_text

----------------------------------------------------------------------------
(* C13 *)

\* C13: the event type that the keyword variant's extract computes for a
\* text is unknown, grounding, collision or stranding, never accident.
C13_AccidentNeverReturned ==
    (variant = "keyword" /\ Extracted) =>
        result.event_type \in {"unknown", "grounding", "collision",
                               "stranding"}

\* a text with a keyword of the type accident has been extracted: no
\* trigger, type unknown
C13_AccidentTextIsUnknown ==
    /\ variant = "keyword"
    /\ Extracted
    /\ user_text = "accident "
    /\ parts.triggers = <<>>
    /\ result.event_type = "unknown"

\* no keyword of the type accident is a trigger keyword
C13_NoAccidentTrigger ==
    {"accident", "incident", "casualty", "mishap"}
        \cap Range(trigger_patterns) = {}

====
